---------------------------- MODULE Spec2Model ----------------------------
(***************************************************************************)
(* Model of annotation_store/store.py: the AnnotationStore dispatcher, its *)
(* two backends (AppStoreBackend: local database, CatchStoreBackend:       *)
(* remote proxy), the grade passback and the UserStats accumulator.        *)
(*                                                                         *)
(* Every request is handled by one process.  A handler is cut into steps   *)
(* at the database statements it issues (SELECT / INSERT / UPDATE / COMMIT)*)
(* and at the calls to external services, so that requests interleave at   *)
(* the places where the real ones do.                                      *)
(*                                                                         *)
(* Conventions: a Python None and a missing JSON key are the string        *)
(* "None"; a null parent_id is 0 (the code only tests its truthiness at    *)
(* the places modelled, except _serialize_annotation's "is None", and no   *)
(* modelled input produces a stored parent_id of 0).  Timestamps, text and *)
(* quote are left out: no modelled decision reads them.                    *)
(***************************************************************************)
EXTENDS Integers, Sequences, FiniteSets, TLC

\* ------------------------------------------------------------- bounds
\* longest permissions.read list of the payloads given to the rewriter
MaxRead == 3
\* rows the Annotation table may hold (INSERTs issued, committed or not)
MaxAnnos == 3
\* requests issued in one behaviour
MaxRequests == 3
\* concurrent reply creators of the SpecReplies scenario
NumCreators == 2

\* ------------------------------------------------------------- state
VARIABLES
    settings,      \* ANNOTATION_STORE settings and ORGANIZATION (lines 25-26, 223)
    annotations,   \* committed rows of the Annotation table: pk -> row
    next_pk,       \* the table's primary key sequence
    tagtable,      \* committed names of the AnnotationTags table
    userstats,     \* the UserStats table: a sequence of rows, in pk order
    tx,            \* per process: the open transaction's uncommitted writes
    req,           \* per process: the request being handled and its locals
    nreq,          \* requests issued so far
    history        \* per key, the creates less the deletes answered so far (read by no action)

vars == <<settings, annotations, next_pk, tagtable, userstats, tx, req, nreq, history>>

\* every process that can handle a request
AllProcs == 1 .. NumCreators

\* ------------------------------------------------------------- values
None == "None"
ADMIN_GROUP_ID == "__admin__"

NoTx == [rows |-> <<>>, tags |-> {}]

NoRow == [pk |-> 0]

NoResponse == [status_code |-> 0, content |-> [kind |-> "none"]]

NoSession == [hx_context_id |-> None, hx_user_id |-> None,
              is_staff |-> FALSE, is_graded |-> FALSE]

NoBody == [contextId |-> None, collectionId |-> None, uri |-> None,
           media |-> None, user |-> [id |-> None, name |-> None],
           permissions |-> [present |-> FALSE, read |-> <<>>],
           parent |-> "absent", tags |-> <<>>]

NoQuery == [contextId |-> None, userid |-> "", limit |-> "absent",
            offset |-> "absent"]

\* no outbound call was made: no auth token and no data were sent
NoCall == [token |-> "none", data |-> NoBody]

\* a process that handles no request
Idle == [pc |-> "idle", op |-> "none", LTI |-> NoSession, body |-> NoBody,
         GET |-> NoQuery, annotation_id |-> 0,
         anno |-> NoRow, parent_anno |-> NoRow, qs |-> <<>>,
         data |-> NoBody, sent |-> NoCall, remote |-> NoResponse,
         response |-> NoResponse, result |-> "none",
         backend_called |-> FALSE, passback |-> "none", stats_ran |-> FALSE]

\* ------------------------------------------------------------- database
\* the function f with key k bound to v
Put(f, k, v) == [x \in DOMAIN f \cup {k} |-> IF x = k THEN v ELSE f[x]]

\* the table as process p's statements see it: committed rows overlaid by its own writes
Visible(p) ==
    [k \in DOMAIN annotations \cup DOMAIN tx[p].rows |->
        IF k \in DOMAIN tx[p].rows THEN tx[p].rows[k] ELSE annotations[k]]

\* row k is write-locked by a transaction other than p's
Locked(p, k) == \E q \in AllProcs \ {p} : k \in DOMAIN tx[q].rows


\* ------------------------------------------------------------- dispatcher: authorization
\* a course check that staff pass whatever the course
VerifyCourseStaffBypass(LTI, context_id) == context_id = LTI.hx_context_id \/ LTI.is_staff

\* AnnotationStore._verify_course: the result of the comparison (PermissionDenied when FALSE)
_verify_course(LTI, context_id) == context_id = LTI.hx_context_id

\* a user check that only logs its failure (raise_exception left False)
VerifyUserLogOnly(LTI, user_id) == TRUE

\* AnnotationStore._verify_user
_verify_user(LTI, user_id) == user_id = LTI.hx_user_id \/ LTI.is_staff

\* the checks create, update and delete run on the request body before the backend
VerifyBody(LTI, body) ==
    /\ _verify_course(LTI, body.contextId)
    /\ _verify_user(LTI, body.user.id)

\* ------------------------------------------------------------- StoreBackend
Range(s) == {s[i] : i \in DOMAIN s}

\* data has a parent: 'parent' in data and data['parent'] != '' and data['parent'] != '0'
has_parent(data) == data.parent \notin {"absent", "", "0"}

\* a rewriter that inserts the author without looking whether it is in the list
ModifyPermissionsAlwaysInserts(data) ==
    LET read == data.permissions.read
        withUser == <<data.user.id>> \o read
        withAdmin == IF ADMIN_GROUP_ID \notin Range(withUser)
                     THEN Append(withUser, ADMIN_GROUP_ID) ELSE withUser
    IN  IF Len(read) = 0 THEN data
        ELSE [data EXCEPT !.permissions =
                 [present |-> TRUE,
                  read |-> IF has_parent(data) THEN <<>> ELSE withAdmin]]

\* a rewriter that puts a missing author at the end of the list
ModifyPermissionsAppendsAuthor(data) ==
    LET read == data.permissions.read
        withUser == IF data.user.id \notin Range(read)
                    THEN Append(read, data.user.id) ELSE read
        withAdmin == IF ADMIN_GROUP_ID \notin Range(withUser)
                     THEN Append(withUser, ADMIN_GROUP_ID) ELSE withUser
    IN  IF Len(read) = 0 THEN data
        ELSE [data EXCEPT !.permissions =
                 [present |-> TRUE,
                  read |-> IF has_parent(data) THEN <<>> ELSE withAdmin]]

\* StoreBackend._modify_permissions
_modify_permissions(data) ==
    LET read == data.permissions.read
        withUser == IF data.user.id \notin Range(read)
                    THEN <<data.user.id>> \o read ELSE read
        withAdmin == IF ADMIN_GROUP_ID \notin Range(withUser)
                     THEN Append(withUser, ADMIN_GROUP_ID) ELSE withUser
    IN  IF Len(read) = 0 THEN data
        ELSE [data EXCEPT !.permissions =
                 [present |-> TRUE,
                  read |-> IF has_parent(data) THEN <<>> ELSE withAdmin]]

\* a body that is parsed and never rewritten
GetRequestBodyAsReceived(body) == body

\* StoreBackend._get_request_body
_get_request_body(body) ==
    IF settings.ADMIN_GROUP_ENABLED THEN _modify_permissions(body) ELSE body

\* ------------------------------------------------------------- AppStoreBackend: pure parts
max_limit == 1000

\* int(s) of the strings the requests carry; str.isdigit() is membership in its domain
PyInt == ("0" :> 0) @@ ("1" :> 1) @@ ("2" :> 2) @@ ("3" :> 3) @@ ("4" :> 4)
         @@ ("5" :> 5) @@ ("5000" :> 5000)

isdigit(s) == s \in DOMAIN PyInt

\* a fresh Annotation(): the model's field defaults
NewAnnotation ==
    [pk |-> 0, context_id |-> None, collection_id |-> None, uri |-> None,
     media |-> None, user_id |-> None, user_name |-> None, is_private |-> FALSE,
     json |-> NoBody, parent_id |-> 0, total_comments |-> 0,
     is_deleted |-> FALSE, tags |-> {}]

\* the body lacks a key _create_or_update subscripts (body['user']['id'], ...): KeyError
MissingKey(body) ==
    \/ body.contextId = None \/ body.collectionId = None \/ body.uri = None
    \/ body.media = None \/ body.user.id = None \/ body.user.name = None

\* int(body['parent']) raises ValueError
BadParent(body) == body.parent \notin {"absent", "0"} /\ ~isdigit(body.parent)

\* _create_or_update, lines 503-516: the fields of anno as set from the request body
SetFields(anno, body) ==
    [anno EXCEPT
        !.context_id = body.contextId,
        !.collection_id = body.collectionId,
        !.uri = body.uri,
        !.media = body.media,
        !.user_id = body.user.id,
        !.user_name = body.user.name,
        !.is_private = (Len(body.permissions.read) # 0),
        !.json = body,
        !.parent_id = IF body.parent \notin {"absent", "0"}
                      THEN PyInt[body.parent] ELSE @]

\* AppStoreBackend._serialize_annotation
_serialize_annotation(anno) ==
    [kind |-> "annotation", json |-> anno.json, id |-> anno.pk,
     deleted |-> anno.is_deleted,
     totalComments |-> [present |-> anno.parent_id = 0,
                        value |-> IF anno.parent_id = 0 THEN anno.total_comments ELSE 0]]

HttpResponse(content, status) == [status_code |-> status, content |-> content]

\* get_object_or_404 found no row
Http404 == [status_code |-> 404, content |-> [kind |-> "none"]]

\* AppStoreBackend.read on the table db
read(db, annotation_id) ==
    IF annotation_id \in DOMAIN db
    THEN HttpResponse(_serialize_annotation(db[annotation_id]), 200)
    ELSE Http404

RECURSIVE Ascending(_)
\* the members of a set of integers in ascending order
Ascending(S) ==
    IF S = {} THEN <<>>
    ELSE LET m == CHOOSE x \in S : \A y \in S : x <= y
         IN  <<m>> \o Ascending(S \ {m})

\* a queryset whose explicit userid filter replaces the visibility rule
SearchMatchesUseridFirst(db, LTI, GET, k) ==
    /\ (GET.contextId # "" => db[k].context_id = GET.contextId)
    /\ (GET.userid # "" => db[k].user_id = GET.userid)
    /\ ((~LTI.is_staff /\ GET.userid = "") =>
           \/ ~db[k].is_private
           \/ (db[k].is_private /\ db[k].user_id = LTI.hx_user_id))

\* AppStoreBackend.search, lines 423-439: the rows the queryset matches
SearchMatches(db, LTI, GET, k) ==
    /\ (GET.contextId # "" => db[k].context_id = GET.contextId)
    /\ (GET.userid # "" => db[k].user_id = GET.userid)
    /\ (~LTI.is_staff =>
           \/ ~db[k].is_private
           \/ (db[k].is_private /\ db[k].user_id = LTI.hx_user_id))

\* a search that reports and applies the requested offset without clamping it
AppSearchResultOffsetAsRequested(db, LTI, GET) ==
    LET queryset == Ascending({k \in DOMAIN db : SearchMatches(db, LTI, GET, k)})
        total == Len(queryset)
        limit == IF GET.limit # "absent" /\ isdigit(GET.limit)
                 THEN (IF PyInt[GET.limit] <= max_limit THEN PyInt[GET.limit] ELSE max_limit)
                 ELSE max_limit
        offset == IF GET.offset # "absent" /\ isdigit(GET.offset)
                  THEN PyInt[GET.offset] ELSE 0
        end == IF offset + limit < total THEN offset + limit ELSE total
        rows == [i \in 1 .. (end - offset) |-> _serialize_annotation(db[queryset[offset + i]])]
    IN  [kind |-> "search", total |-> total, limit |-> limit, offset |-> offset,
         size |-> Len(rows), rows |-> rows]

\* AppStoreBackend.search: the response envelope
AppSearchResult(db, LTI, GET) ==
    LET queryset == Ascending({k \in DOMAIN db : SearchMatches(db, LTI, GET, k)})
        total == Len(queryset)
        limit == IF GET.limit # "absent" /\ isdigit(GET.limit)
                 THEN (IF PyInt[GET.limit] <= max_limit THEN PyInt[GET.limit] ELSE max_limit)
                 ELSE max_limit
        offset == IF GET.offset # "absent" /\ isdigit(GET.offset)
                  THEN (IF PyInt[GET.offset] < total THEN PyInt[GET.offset] ELSE total)
                  ELSE 0
        end == IF offset + limit < total THEN offset + limit ELSE total
        rows == [i \in 1 .. (end - offset) |-> _serialize_annotation(db[queryset[offset + i]])]
    IN  [kind |-> "search", total |-> total, limit |-> limit, offset |-> offset,
         size |-> Len(rows), rows |-> rows]

\* ------------------------------------------------------------- dispatcher: requests
\* the bound on the behaviour: another request may be issued
MayIssue(p) == req[p].pc = "idle" /\ nreq < MaxRequests

\* another INSERT stays within the modelled table size
MayInsert ==
    next_pk + Cardinality({q \in AllProcs : req[q].op = "create" /\ req[q].pc = "backend"})
        <= MaxAnnos

\* the request after the authorization of lines 94-95, 116-117, 130-131 (86 for search)
Authorize(r, ok) ==
    IF ok THEN [r EXCEPT !.pc = "backend"]
    ELSE [r EXCEPT !.pc = "done", !.result = "PermissionDenied"]

\* AnnotationStore.search up to the backend call
SearchRequest(p, LTI, GET) ==
    /\ MayIssue(p)
    /\ req' = [req EXCEPT ![p] =
                  Authorize([Idle EXCEPT !.op = "search", !.LTI = LTI, !.GET = GET],
                            _verify_course(LTI, GET.contextId))]
    /\ nreq' = nreq + 1
    /\ UNCHANGED <<history, settings, annotations, next_pk, tagtable, userstats, tx>>

\* AnnotationStore.create up to the backend call
CreateRequest(p, LTI, body) ==
    /\ MayIssue(p)
    /\ MayInsert
    /\ req' = [req EXCEPT ![p] =
                  Authorize([Idle EXCEPT !.op = "create", !.LTI = LTI, !.body = body],
                            VerifyBody(LTI, body))]
    /\ nreq' = nreq + 1
    /\ UNCHANGED <<history, settings, annotations, next_pk, tagtable, userstats, tx>>

\* AnnotationStore.update up to the backend call
UpdateRequest(p, LTI, annotation_id, body) ==
    /\ MayIssue(p)
    /\ req' = [req EXCEPT ![p] =
                  Authorize([Idle EXCEPT !.op = "update", !.LTI = LTI, !.body = body,
                                         !.annotation_id = annotation_id],
                            VerifyBody(LTI, body))]
    /\ nreq' = nreq + 1
    /\ UNCHANGED <<history, settings, annotations, next_pk, tagtable, userstats, tx>>

\* AnnotationStore.delete up to the backend call
DeleteRequest(p, LTI, annotation_id, body) ==
    /\ MayIssue(p)
    /\ req' = [req EXCEPT ![p] =
                  Authorize([Idle EXCEPT !.op = "delete", !.LTI = LTI, !.body = body,
                                         !.annotation_id = annotation_id],
                            VerifyBody(LTI, body))]
    /\ nreq' = nreq + 1
    /\ UNCHANGED <<history, settings, annotations, next_pk, tagtable, userstats, tx>>

\* ------------------------------------------------------------- history
\* the key (context, collection, uri, user) of an annotation object
KeyOf(json) ==
    [context_id |-> json.contextId, collection_id |-> json.collectionId,
     uri |-> json.uri, user_id |-> json.user.id, user_name |-> json.user.name]

\* the history after a backend answered a create, update or delete with response: per
\* key, the creates less the deletes whose response carried an annotation object,
\* comments apart from the other media
Answered(op, response) ==
    LET content == response.content
        key == KeyOf(content.json)
        old == IF key \in DOMAIN history THEN history[key]
               ELSE [total_comments |-> 0, total_annotations |-> 0]
        d == IF op = "create" THEN 1 ELSE -1
    IN  IF op \notin {"create", "delete"} \/ content.kind # "annotation"
           \/ MissingKey(content.json)
        THEN history
        ELSE Put(history, key,
                 IF content.json.media = "comment"
                 THEN [old EXCEPT !.total_comments = @ + d]
                 ELSE [old EXCEPT !.total_annotations = @ + d])

\* the hook that follows a backend response: after_create, after_update, after_delete
AfterHook(op) == IF op = "create" THEN "after_create" ELSE "stats"

\* ------------------------------------------------------------- AppStoreBackend: steps
\* a block that is no transaction: the writes made before the exception stay
AbortKeepsWrites(p) == Visible(p)

\* @transaction.atomic on an exception: the committed table once the block is left
AfterAbort(p) == annotations

\* an exception raised inside the backend reaches the caller of the dispatcher
Raise(p, exc) ==
    /\ req' = [req EXCEPT ![p].pc = "done", ![p].result = exc,
                          ![p].backend_called = TRUE]
    /\ annotations' = AfterAbort(p)
    /\ tx' = [tx EXCEPT ![p] = NoTx]
    /\ UNCHANGED <<history, settings, next_pk, tagtable, userstats, nreq>>

\* @transaction.atomic on a normal return: the block's writes become visible together,
\* and the backend's response goes to the dispatcher's hook
Commit(p, rows, tags, anno) ==
    /\ annotations' = [k \in DOMAIN annotations \cup DOMAIN rows |->
                          IF k \in DOMAIN rows THEN rows[k] ELSE annotations[k]]
    /\ tagtable' = tagtable \cup tags
    /\ tx' = [tx EXCEPT ![p] = NoTx]
    /\ req' = [req EXCEPT ![p].pc = AfterHook(req[p].op),
                          ![p].anno = anno,
                          ![p].response = HttpResponse(_serialize_annotation(anno), 200)]
    /\ history' = Answered(req[p].op, HttpResponse(_serialize_annotation(anno), 200))
    /\ UNCHANGED <<settings, next_pk, userstats, nreq>>

\* AppStoreBackend.search
AppSearch(p) ==
    /\ settings.backend = "app"
    /\ req[p].pc = "backend" /\ req[p].op = "search"
    /\ req' = [req EXCEPT ![p].pc = "done", ![p].result = "response",
                          ![p].backend_called = TRUE,
                          ![p].response =
                              HttpResponse(AppSearchResult(Visible(p), req[p].LTI, req[p].GET), 200)]
    /\ UNCHANGED <<history, settings, annotations, next_pk, tagtable, userstats, tx, nreq>>

\* AppStoreBackend.update, line 479: Annotation.objects.get(pk=annotation_id)
AppUpdateGet(p) ==
    /\ settings.backend = "app"
    /\ req[p].pc = "backend" /\ req[p].op = "update"
    /\ IF req[p].annotation_id \in DOMAIN Visible(p)
       THEN /\ req' = [req EXCEPT ![p].pc = "save", ![p].backend_called = TRUE,
                                  ![p].anno = Visible(p)[req[p].annotation_id]]
            /\ UNCHANGED <<history, settings, annotations, next_pk, tagtable, userstats, tx, nreq>>
       ELSE Raise(p, "DoesNotExist")

\* _create_or_update, lines 499-517: the fields from the body, then anno.save()
AppSave(p) ==
    LET r == req[p]
        create == r.op = "create"
        body == _get_request_body(r.body)
        pk == IF create THEN next_pk ELSE r.anno.pk
        anno == [SetFields(IF create THEN NewAnnotation ELSE r.anno, body) EXCEPT !.pk = pk]
    IN  /\ settings.backend = "app"
        /\ \/ r.pc = "backend" /\ create
           \/ r.pc = "save"
        /\ IF MissingKey(r.body) THEN Raise(p, "KeyError")
           ELSE IF BadParent(body) THEN Raise(p, "ValueError")
           ELSE /\ ~Locked(p, pk)
                /\ tx' = [tx EXCEPT ![p].rows = Put(@, pk, anno)]
                /\ next_pk' = IF create THEN next_pk + 1 ELSE next_pk
                /\ req' = [req EXCEPT ![p].anno = anno, ![p].backend_called = TRUE,
                                      ![p].pc = IF create /\ anno.parent_id # 0
                                                THEN "parent_get" ELSE "tags"]
                /\ UNCHANGED <<history, settings, annotations, tagtable, userstats, nreq>>

\* _create_or_update, line 520: Annotation.objects.get(pk=int(body['parent']))
AppParentGet(p) ==
    LET k == PyInt[req[p].body.parent]
    IN  /\ req[p].pc = "parent_get"
        /\ IF k \in DOMAIN Visible(p)
           THEN /\ req' = [req EXCEPT ![p].pc = "parent_save",
                                      ![p].parent_anno = Visible(p)[k]]
                /\ UNCHANGED <<history, settings, annotations, next_pk, tagtable, userstats, tx, nreq>>
           ELSE Raise(p, "DoesNotExist")

\* a counter computed in Python from the instance that was read: instance + delta
InMemoryIncrement(current, instance, delta) == instance + delta

\* total_comments = F('total_comments') + delta, then save(): the UPDATE computes the
\* counter from the row's current value, and writes the instance's other fields
FExpr(current, instance, delta) == current + delta

\* _create_or_update, lines 521-522: the parent's counter, then parent_anno.save()
AppParentSave(p) ==
    LET k == req[p].parent_anno.pk
        row == [req[p].parent_anno EXCEPT !.total_comments =
                   FExpr(Visible(p)[k].total_comments, @, 1)]
    IN  /\ req[p].pc = "parent_save"
        /\ ~Locked(p, k)
        /\ tx' = [tx EXCEPT ![p].rows = Put(@, k, row)]
        /\ req' = [req EXCEPT ![p].pc = "tags"]
        /\ UNCHANGED <<history, settings, annotations, next_pk, tagtable, userstats, nreq>>

\* tag_name.strip()
strip == (" t1" :> "t1") @@ ("t1" :> "t1")

\* _create_or_update, lines 524-530: the tags are cleared and rebuilt, the atomic block
\* is left, and create/update serialize the instance (lines 475-476, 480-481)
AppTags(p) ==
    LET r == req[p]
        names == {strip[t] : t \in Range(_get_request_body(r.body).tags)}
        row == [Visible(p)[r.anno.pk] EXCEPT !.tags = names]
    IN  /\ r.pc = "tags"
        /\ Commit(p, Put(tx[p].rows, r.anno.pk, row), names, r.anno)

\* AppStoreBackend.delete, line 485: Annotation.objects.get(pk=annotation_id)
AppDeleteGet(p) ==
    /\ settings.backend = "app"
    /\ req[p].pc = "backend" /\ req[p].op = "delete"
    /\ IF req[p].annotation_id \in DOMAIN Visible(p)
       THEN /\ req' = [req EXCEPT ![p].pc = "del_save", ![p].backend_called = TRUE,
                                  ![p].anno = Visible(p)[req[p].annotation_id]]
            /\ UNCHANGED <<history, settings, annotations, next_pk, tagtable, userstats, tx, nreq>>
       ELSE Raise(p, "DoesNotExist")

\* a delete that saves the row without setting its flag
AppDeleteSaveUnflagged(p) ==
    LET anno == req[p].anno
    IN  /\ req[p].pc = "del_save"
        /\ ~Locked(p, anno.pk)
        /\ IF anno.parent_id # 0
           THEN /\ tx' = [tx EXCEPT ![p].rows = Put(@, anno.pk, anno)]
                /\ req' = [req EXCEPT ![p].pc = "del_parent_get", ![p].anno = anno]
                /\ UNCHANGED <<history, settings, annotations, next_pk, tagtable, userstats, nreq>>
           ELSE Commit(p, Put(tx[p].rows, anno.pk, anno), {}, anno)

\* AppStoreBackend.delete, lines 486-489: is_deleted = True, anno.save(); without a parent
\* the block is left and the instance serialized (lines 494-495)
AppDeleteSave(p) ==
    LET anno == [req[p].anno EXCEPT !.is_deleted = TRUE]
    IN  /\ req[p].pc = "del_save"
        /\ ~Locked(p, anno.pk)
        /\ IF anno.parent_id # 0
           THEN /\ tx' = [tx EXCEPT ![p].rows = Put(@, anno.pk, anno)]
                /\ req' = [req EXCEPT ![p].pc = "del_parent_get", ![p].anno = anno]
                /\ UNCHANGED <<history, settings, annotations, next_pk, tagtable, userstats, nreq>>
           ELSE Commit(p, Put(tx[p].rows, anno.pk, anno), {}, anno)

\* AppStoreBackend.delete, line 490: Annotation.objects.get(pk=anno.parent_id)
AppDeleteParentGet(p) ==
    LET k == req[p].anno.parent_id
    IN  /\ req[p].pc = "del_parent_get"
        /\ IF k \in DOMAIN Visible(p)
           THEN /\ req' = [req EXCEPT ![p].pc = "del_parent_save",
                                      ![p].parent_anno = Visible(p)[k]]
                /\ UNCHANGED <<history, settings, annotations, next_pk, tagtable, userstats, tx, nreq>>
           ELSE Raise(p, "DoesNotExist")

\* AppStoreBackend.delete, lines 491-495: the parent's counter, parent_anno.save(), the
\* block is left and the instance serialized
AppDeleteParentSave(p) ==
    LET k == req[p].parent_anno.pk
        row == [req[p].parent_anno EXCEPT !.total_comments =
                   FExpr(Visible(p)[k].total_comments, @, -1)]
    IN  /\ req[p].pc = "del_parent_save"
        /\ ~Locked(p, k)
        /\ Commit(p, Put(tx[p].rows, k, row), {}, req[p].anno)

\* ------------------------------------------------------------- CatchStoreBackend
\* CatchStoreBackend._response_timeout
_response_timeout == HttpResponse([kind |-> "json", error |-> "request timeout"], 500)

\* what the remote annotation service may answer to a request: a status code and a body
\* that is an annotation object, another JSON object, or no JSON at all
RemoteStatus == {200, 404}

RemoteContent(r) ==
    { [kind |-> "annotation", json |-> _get_request_body(r.body), id |-> 1,
       deleted |-> r.op = "delete", totalComments |-> [present |-> TRUE, value |-> 0]],
      [kind |-> "json", error |-> "remote"],
      [kind |-> "not_json"] }

\* the x-annotator-auth-token values: the one of the inbound request's headers, and
\* the one retrieve_token mints for the admin group
InboundToken == "HTTP_X_ANNOTATOR_AUTH_TOKEN"

AdminToken == "retrieve_token(__admin__)"

\* a hook that takes the admin token whoever searches
BeforeSearchAnyUser(LTI) ==
    IF settings.ADMIN_GROUP_ENABLED THEN AdminToken ELSE InboundToken

\* CatchStoreBackend.__init__ and before_search: the token of a search's headers
before_search(LTI) ==
    IF settings.ADMIN_GROUP_ENABLED /\ LTI.is_staff THEN AdminToken ELSE InboundToken

\* an outbound call that sends the body of the request as it was received
OutboundAsReceived(r) ==
    [token |-> IF r.op = "search" THEN before_search(r.LTI) ELSE InboundToken,
     data |-> IF r.op \in {"create", "update"} THEN r.body ELSE NoBody]

\* the outbound call of request r: the token of self.headers, and json.dumps(body) for
\* create and update (search sends the query, delete sends no data)
Outbound(r) ==
    [token |-> IF r.op = "search" THEN before_search(r.LTI) ELSE InboundToken,
     data |-> IF r.op \in {"create", "update"} THEN _get_request_body(r.body) ELSE NoBody]

\* the outbound call raised requests.exceptions.Timeout: there is no answer
Timeout == [status_code |-> 0, content |-> [kind |-> "timeout"]]

\* the HttpResponse built from the remote answer (delete: HttpResponse(response), line
\* 387, which takes the body and leaves the status at HttpResponse's default)
CatchResponse(op, remote) ==
    HttpResponse(remote.content, IF op = "delete" THEN 200 ELSE remote.status_code)

\* CatchStoreBackend.search/create/update/delete: the outbound call, its timeout, and
\* the response returned to the dispatcher
CatchCall(p) ==
    LET r == req[p]
        Return(remote, response) ==
            /\ history' = Answered(r.op, response)
            /\ req' = [req EXCEPT ![p].backend_called = TRUE,
                                  ![p].sent = Outbound(r),
                                  ![p].remote = remote,
                                  ![p].response = response,
                                  ![p].pc = IF r.op = "search" THEN "done"
                                            ELSE AfterHook(r.op),
                                  ![p].result = IF r.op = "search" THEN "response" ELSE @]
    IN  /\ settings.backend = "catch"
        /\ r.pc = "backend"
        /\ \/ Return(Timeout, _response_timeout)
           \/ \E status \in RemoteStatus, content \in RemoteContent(r) :
                 Return(HttpResponse(content, status),
                        CatchResponse(r.op, HttpResponse(content, status)))
        /\ UNCHANGED <<settings, annotations, next_pk, tagtable, userstats, tx, nreq>>

\* ------------------------------------------------------------- dispatcher: hooks
\* what post_replace_result may do: succeed, report a failed outcome, or raise
PassbackOutcome == {"success", "failure", "exception"}

\* a passback whose exception is not caught
PassbackRaises(r, outcome) ==
    IF outcome = "exception"
    THEN [r EXCEPT !.passback = outcome, !.pc = "done", !.result = "Exception"]
    ELSE [r EXCEPT !.passback = outcome, !.pc = "stats"]

\* _lti_grade_passback, lines 171-180: the outcome is logged, an exception is caught
AfterPassback(r, outcome) == [r EXCEPT !.passback = outcome, !.pc = "stats"]

\* a passback that does not look at the status of the backend's response
GradePassbackAnyStatus(p) ==
    LET r == req[p]
    IN  /\ r.pc = "after_create"
        /\ IF ~r.LTI.is_graded
           THEN req' = [req EXCEPT ![p].pc = "stats"]
           ELSE \E outcome \in PassbackOutcome :
                    req' = [req EXCEPT ![p] = AfterPassback(r, outcome)]
        /\ UNCHANGED <<history, settings, annotations, next_pk, tagtable, userstats, tx, nreq>>

\* after_create, lines 103-104, and _lti_grade_passback
GradePassback(p) ==
    LET r == req[p]
    IN  /\ r.pc = "after_create"
        /\ IF ~r.LTI.is_graded \/ r.response.status_code # 200
           THEN req' = [req EXCEPT ![p].pc = "stats"]
           ELSE \E outcome \in PassbackOutcome :
                    req' = [req EXCEPT ![p] = AfterPassback(r, outcome)]
        /\ UNCHANGED <<history, settings, annotations, next_pk, tagtable, userstats, tx, nreq>>

\* UserStats.objects.create(**attrs): the counters start at the model's defaults
NewUserStats(attrs) ==
    [context_id |-> attrs.context_id, collection_id |-> attrs.collection_id,
     uri |-> attrs.uri, user_id |-> attrs.user_id, user_name |-> attrs.user_name,
     total_annotations |-> 0, total_comments |-> 0]

\* _update_stats, lines 190-196: the key taken from the parsed response body
StatsAttrs(content) ==
    [context_id |-> content.json.contextId, collection_id |-> content.json.collectionId,
     uri |-> content.json.uri, user_id |-> content.json.user.id,
     user_name |-> content.json.user.name]

\* a UserStats row has the key attrs
HasAttrs(row, attrs) ==
    /\ row.context_id = attrs.context_id /\ row.collection_id = attrs.collection_id
    /\ row.uri = attrs.uri /\ row.user_id = attrs.user_id
    /\ row.user_name = attrs.user_name

\* _update_stats, lines 183-186: the update is skipped
StatsSkipped(action) ==
    ~settings.gather_statistics \/ action \notin {"create", "update", "delete"}

\* _update_stats, lines 183-197: the guards, json.loads(response.content), the key and
\* the SELECT; an exception of the parse or of a subscript reaches the caller
StatsFilter(p) ==
    LET r == req[p]
        content == r.response.content
    IN  /\ r.pc = "stats"
        /\ req' = [req EXCEPT ![p] =
              IF StatsSkipped(r.op) THEN [r EXCEPT !.pc = "done", !.result = "response"]
              ELSE IF content.kind = "not_json"
                   THEN [r EXCEPT !.pc = "done", !.result = "ValueError"]
              ELSE IF content.kind # "annotation" \/ MissingKey(content.json)
                   THEN [r EXCEPT !.pc = "done", !.result = "KeyError"]
              ELSE [r EXCEPT !.pc = "stats_save",
                             !.qs = SelectSeq([i \in DOMAIN userstats |->
                                                  [pk |-> i, row |-> userstats[i]]],
                                              LAMBDA x : HasAttrs(x.row, StatsAttrs(content)))]]
        /\ UNCHANGED <<history, settings, annotations, next_pk, tagtable, userstats, tx, nreq>>

\* counters that every action other than create decrements
StatsDeltaUpdateCounts(action, media) ==
    [total_comments |-> IF media = "comment"
                        THEN (IF action = "create" THEN 1 ELSE -1)
                        ELSE 0,
     total_annotations |-> IF media # "comment"
                           THEN (IF action = "create" THEN 1 ELSE -1)
                           ELSE 0]

\* _update_stats, lines 203-212: the counter the action adjusts, and by how much
StatsDelta(action, media) ==
    [total_comments |-> IF media = "comment"
                        THEN (IF action = "create" THEN 1
                              ELSE IF action = "delete" THEN -1 ELSE 0)
                        ELSE 0,
     total_annotations |-> IF media # "comment"
                           THEN (IF action = "create" THEN 1
                                 ELSE IF action = "delete" THEN -1 ELSE 0)
                           ELSE 0]

\* _update_stats, lines 198-214: the row is created when the SELECT found none, the
\* counter is set to an F() expression and the row saved
StatsSave(p) ==
    LET r == req[p]
        content == r.response.content
        created == Len(r.qs) = 0
        table == IF created THEN Append(userstats, NewUserStats(StatsAttrs(content)))
                 ELSE userstats
        pk == IF created THEN Len(table) ELSE r.qs[1].pk
        instance == IF created THEN table[pk] ELSE r.qs[1].row
        delta == StatsDelta(r.op, content.json.media)
        row == [instance EXCEPT
                   !.total_comments =
                       IF delta.total_comments # 0
                       THEN FExpr(table[pk].total_comments, @, delta.total_comments) ELSE @,
                   !.total_annotations =
                       IF delta.total_annotations # 0
                       THEN FExpr(table[pk].total_annotations, @, delta.total_annotations)
                       ELSE @]
    IN  /\ r.pc = "stats_save"
        /\ userstats' = [table EXCEPT ![pk] = row]
        /\ req' = [req EXCEPT ![p].pc = "done", ![p].result = "response",
                              ![p].stats_ran = TRUE]
        /\ UNCHANGED <<history, settings, annotations, next_pk, tagtable, tx, nreq>>

\* the handler returns to its caller, and the process is free for the next request
Respond(p) ==
    /\ req[p].pc = "done"
    /\ req' = [req EXCEPT ![p] = Idle]
    /\ UNCHANGED <<history, settings, annotations, next_pk, tagtable, userstats, tx, nreq>>

\* ------------------------------------------------------------- requests of the clients
\* a request body
Body(contextId, user_id, media, readers, parent, tags) ==
    [contextId |-> contextId, collectionId |-> "coll1", uri |-> "uri1", media |-> media,
     user |-> [id |-> user_id, name |-> IF user_id = None THEN None ELSE "name1"],
     permissions |-> [present |-> TRUE, read |-> readers],
     parent |-> parent, tags |-> tags]

\* the annotation ids of update and delete requests
AnnotationIds == 1 .. MaxAnnos

\* the LTI sessions of course c1: learner u1, on a graded and on an ungraded launch, and
\* u2 of the course staff
Sessions ==
    {[hx_context_id |-> "c1", hx_user_id |-> "u1", is_staff |-> FALSE, is_graded |-> g] :
        g \in BOOLEAN}
    \cup {[hx_context_id |-> "c1", hx_user_id |-> "u2", is_staff |-> TRUE, is_graded |-> TRUE]}

\* bodies that differ in what the authorization reads, a private reply and a private
\* top-level comment
Bodies ==
    {Body(c, u, "note", <<>>, "absent", <<>>) :
        c \in {"c1", "c2", None}, u \in {"u1", "u2", None}}
    \cup {Body("c1", "u1", "comment", <<"u1">>, "1", <<" t1">>),
          Body("c1", "u2", "comment", <<"u2">>, "absent", <<>>)}

\* search queries
Queries == [contextId : {"c1", "c2", None}, userid : {"", "u2"},
            limit : {"absent", "1"}, offset : {"absent", "1"}]

\* ------------------------------------------------------------- specification
TypeOK ==
    /\ settings \in [backend : {"app", "catch"}, gather_statistics : BOOLEAN,
                     ADMIN_GROUP_ENABLED : BOOLEAN]
    /\ next_pk \in 1 .. (MaxAnnos + 1)
    /\ DOMAIN annotations \subseteq 1 .. MaxAnnos
    /\ nreq \in 0 .. MaxRequests
    /\ \A p \in AllProcs :
          req[p].pc \in {"idle", "backend", "save", "parent_get", "parent_save", "tags",
                         "del_save", "del_parent_get", "del_parent_save",
                         "after_create", "stats", "stats_save", "done",
                         "payload", "rewritten", "rewritten_again"}

\* the store as deployed: the settings are fixed, the tables are empty
Init ==
    /\ settings \in [backend : {"app", "catch"}, gather_statistics : BOOLEAN,
                     ADMIN_GROUP_ENABLED : BOOLEAN]
    /\ annotations = <<>>
    /\ next_pk = 1
    /\ tagtable = {}
    /\ userstats = <<>>
    /\ tx = [p \in AllProcs |-> NoTx]
    /\ req = [p \in AllProcs |-> Idle]
    /\ nreq = 0
    /\ history = <<>>

\* process p takes up a request of a client: one of the sessions S sends a query of Q,
\* or a body of B, for an annotation id of I
Issue(p, S, B, Q, I) ==
    \/ \E LTI \in S, GET \in Q : SearchRequest(p, LTI, GET)
    \/ \E LTI \in S, body \in B : CreateRequest(p, LTI, body)
    \/ \E LTI \in S, id \in I, body \in B : UpdateRequest(p, LTI, id, body)
    \/ \E LTI \in S, id \in I, body \in B : DeleteRequest(p, LTI, id, body)

\* process p takes the next step of the request it handles
Handle(p) ==
    \/ AppSearch(p)
    \/ AppUpdateGet(p)
    \/ AppSave(p)
    \/ AppParentGet(p)
    \/ AppParentSave(p)
    \/ AppTags(p)
    \/ AppDeleteGet(p)
    \/ AppDeleteSave(p)
    \/ AppDeleteParentGet(p)
    \/ AppDeleteParentSave(p)
    \/ CatchCall(p)
    \/ GradePassback(p)
    \/ StatsFilter(p)
    \/ StatsSave(p)
    \/ Respond(p)

\* requests handled one after the other
Next == Issue(1, Sessions, Bodies, Queries, AnnotationIds) \/ Handle(1)

Spec == Init /\ [][Next]_vars

\* ------------------------------------------------------------- a thread, concurrently
\* the top-level annotation of u2 that the replies name as their parent
ThreadParent ==
    [SetFields(NewAnnotation, Body("c1", "u2", "note", <<>>, "absent", <<>>)) EXCEPT !.pk = 1]

\* a reply of u1 to ThreadParent, stored as row 2
ThreadReply ==
    [SetFields(NewAnnotation, Body("c1", "u1", "comment", <<>>, "1", <<>>)) EXCEPT !.pk = 2]

\* replies to row 1
ReplyBodies == {Body("c1", u, "comment", <<>>, "1", <<>>) : u \in {"u1", "u2"}}

\* a reply to row 1 and a reply to a row that does not exist
ThreadBodies ==
    {Body("c1", "u2", "comment", <<>>, "1", <<" t1">>),
     Body("c1", "u2", "comment", <<>>, "5", <<>>)}

\* the staff session of u2
StaffSessions == {LTI \in Sessions : LTI.is_staff}

\* the search of a course, without pagination
ThreadQueries == {GET \in Queries : GET.contextId = "c1" /\ GET.userid = ""
                                    /\ GET.limit = "absent" /\ GET.offset = "absent"}

\* the UserStats rows and the history once the rows of table were created, one by one
StatsOfTable(table, gather) ==
    IF gather
    THEN [i \in DOMAIN table |->
             [NewUserStats(StatsAttrs(_serialize_annotation(table[i]))) EXCEPT
                 !.total_comments = IF table[i].media = "comment" THEN 1 ELSE 0,
                 !.total_annotations = IF table[i].media = "comment" THEN 0 ELSE 1]]
    ELSE <<>>

HistoryOfTable(table) ==
    [key \in {KeyOf(table[i].json) : i \in DOMAIN table} |->
        [total_comments |->
             Cardinality({i \in DOMAIN table : KeyOf(table[i].json) = key
                                               /\ table[i].media = "comment"}),
         total_annotations |->
             Cardinality({i \in DOMAIN table : KeyOf(table[i].json) = key
                                               /\ table[i].media # "comment"})]]

\* the local store holding the rows of table, each created by a request of its own
InitTable(table) ==
    /\ settings \in [backend : {"app"}, gather_statistics : BOOLEAN,
                     ADMIN_GROUP_ENABLED : {FALSE}]
    /\ annotations = table
    /\ next_pk = Len(table) + 1
    /\ tagtable = {}
    /\ userstats = StatsOfTable(table, settings.gather_statistics)
    /\ tx = [p \in AllProcs |-> NoTx]
    /\ req = [p \in AllProcs |-> Idle]
    /\ nreq = 0
    /\ history = HistoryOfTable(table)

\* the local store holds the parent and no reply yet
InitReplies == InitTable(<<ThreadParent>>)

\* the processes create replies to row 1, their steps interleaved
NextReplies ==
    \E p \in AllProcs :
        \/ \E LTI \in Sessions, body \in ReplyBodies : CreateRequest(p, LTI, body)
        \/ AppSave(p)
        \/ AppParentGet(p)
        \/ AppParentSave(p)
        \/ AppTags(p)
        \/ GradePassback(p)
        \/ StatsFilter(p)
        \/ StatsSave(p)
        \/ Respond(p)

SpecReplies == InitReplies /\ [][NextReplies]_vars

\* the local store holds the parent, its counter at 1, and its reply
InitThread == InitTable(<<[ThreadParent EXCEPT !.total_comments = 1], ThreadReply>>)

\* the processes search, create replies, and update and delete the reply, row 2
NextThread ==
    \E p \in AllProcs :
        \/ Issue(p, StaffSessions, ThreadBodies, ThreadQueries, {ThreadReply.pk})
        \/ AppSearch(p)
        \/ AppUpdateGet(p)
        \/ AppSave(p)
        \/ AppParentGet(p)
        \/ AppParentSave(p)
        \/ AppTags(p)
        \/ AppDeleteGet(p)
        \/ AppDeleteSave(p)
        \/ AppDeleteParentGet(p)
        \/ AppDeleteParentSave(p)
        \/ GradePassback(p)
        \/ StatsFilter(p)
        \/ StatsSave(p)
        \/ Respond(p)

SpecThread == InitThread /\ [][NextThread]_vars

\* ------------------------------------------------------------- one UserStats row, concurrently
\* top-level bodies of u2, a note and a comment: both name the key of ThreadParent
StatsBodies == {Body("c1", "u2", media, <<>>, "absent", <<>>) : media \in {"note", "comment"}}

\* the local store holds the note of u2 and, with gathering enabled, the row of its key
InitStats == InitTable(<<ThreadParent>>)

\* the processes create and delete top-level annotations of u2, their steps interleaved
NextStats ==
    \E p \in AllProcs :
        \/ \E LTI \in StaffSessions, body \in StatsBodies : CreateRequest(p, LTI, body)
        \/ \E LTI \in StaffSessions, id \in AnnotationIds, body \in StatsBodies :
               DeleteRequest(p, LTI, id, body)
        \/ AppSave(p)
        \/ AppTags(p)
        \/ AppDeleteGet(p)
        \/ AppDeleteSave(p)
        \/ GradePassback(p)
        \/ StatsFilter(p)
        \/ StatsSave(p)
        \/ Respond(p)

SpecStats == InitStats /\ [][NextStats]_vars

\* ------------------------------------------------------------- searches of a filled table
\* a private top-level comment of u2, stored as row 3
ThreadNote ==
    [SetFields(NewAnnotation, Body("c1", "u2", "comment", <<"u2">>, "absent", <<>>))
        EXCEPT !.pk = 3]

\* the tables after no, one, two and three creates
SearchTables ==
    {<<>>, <<ThreadParent>>,
     <<[ThreadParent EXCEPT !.total_comments = 1], ThreadReply>>,
     <<[ThreadParent EXCEPT !.total_comments = 1], ThreadReply, ThreadNote>>}

\* limit and offset values: absent, digits within and beyond the table and the
\* maximum, and a string that is no number
PageValues == {"absent", "0", "1", "2", "5", "5000", "abc"}

\* searches of course c1, with and without a userid filter, with any pagination
PagedQueries == [contextId : {"c1"}, userid : {"", "u2"},
                 limit : PageValues, offset : PageValues]

InitSearch == \E table \in SearchTables : InitTable(table)

\* the sessions search the table
NextSearch ==
    \/ \E LTI \in Sessions, GET \in PagedQueries : SearchRequest(1, LTI, GET)
    \/ AppSearch(1)
    \/ Respond(1)

SpecSearch == InitSearch /\ [][NextSearch]_vars

\* ------------------------------------------------------------- the rewriter alone
\* the ids a permissions.read list may hold
ReaderIds == {"u1", "u2", ADMIN_GROUP_ID}

\* the read lists: every order, with and without duplicates
ReadLists == UNION {[1 .. n -> ReaderIds] : n \in 0 .. MaxRead}

\* annotation payloads: of either author, top-level (parent absent, "" or "0") or
\* reply, the permissions absent or with any read list
Payloads ==
    {P \in {[Body("c1", u, "comment", readers, parent, <<>>)
                EXCEPT !.permissions.present = present] :
                u \in {"u1", "u2"}, parent \in {"absent", "", "0", "1"},
                readers \in ReadLists, present \in BOOLEAN} :
        P.permissions.present \/ P.permissions.read = <<>>}

\* a backend holds the parsed body of a request, admin visibility enabled
InitRewriter ==
    /\ settings \in [backend : {"app", "catch"}, gather_statistics : {FALSE},
                     ADMIN_GROUP_ENABLED : {TRUE}]
    /\ annotations = <<>>
    /\ next_pk = 1
    /\ tagtable = {}
    /\ userstats = <<>>
    /\ tx = [p \in AllProcs |-> NoTx]
    /\ \E P \in Payloads :
          req = [p \in AllProcs |->
                    IF p = 1 THEN [Idle EXCEPT !.pc = "payload", !.body = P, !.data = P]
                    ELSE Idle]
    /\ nreq = 0
    /\ history = <<>>

\* _modify_permissions is applied to the data, and once more to what it returned
ModifyPermissions(p) ==
    /\ req[p].pc \in {"payload", "rewritten"}
    /\ req' = [req EXCEPT ![p].data = _modify_permissions(@),
                          ![p].pc = IF @ = "payload" THEN "rewritten"
                                    ELSE "rewritten_again"]
    /\ UNCHANGED <<history, settings, annotations, next_pk, tagtable, userstats, tx, nreq>>

NextRewriter == ModifyPermissions(1)

SpecRewriter == InitRewriter /\ [][NextRewriter]_vars

\* ------------------------------------------------------------- claims
Mutating == {"create", "update", "delete"}

\* the course check or the user check of request r fails
ChecksFail(r) ==
    IF r.op = "search" THEN r.GET.contextId # r.LTI.hx_context_id
    ELSE \/ r.body.contextId # r.LTI.hx_context_id
         \/ (r.body.user.id # r.LTI.hx_user_id /\ ~r.LTI.is_staff)

\* C1, in every state: a request whose course or user check fails has ended with
\* PermissionDenied, its backend was not invoked, no passback and no stats update ran
C1_Denied ==
    \A p \in AllProcs :
        (req[p].op # "none" /\ ChecksFail(req[p])) =>
            /\ req[p].pc = "done"
            /\ req[p].result = "PermissionDenied"
            /\ ~req[p].backend_called
            /\ req[p].passback = "none"
            /\ ~req[p].stats_ran
            /\ req[p].response = NoResponse

\* C1, in every step: taking up and answering such a request changes no table
C1_NoEffect ==
    \A p \in AllProcs :
        ( /\ req'[p] # req[p]
          /\ \/ (req[p].op # "none" /\ ChecksFail(req[p]))
             \/ (req'[p].op # "none" /\ ChecksFail(req'[p])) )
        => UNCHANGED <<annotations, next_pk, tagtable, userstats, tx>>

\* C1: for search, create, update and delete, a failed course or user check ends the
\* operation with PermissionDenied before the backend is invoked: no annotation row,
\* counter or UserStats row changes and no grade passback is attempted
C1_AuthorizationFailureAborts == []C1_Denied /\ [][C1_NoEffect]_vars

\* C1 witness: learner u1 was denied a create for user u2 while rows are stored
C1_Witness ==
    /\ DOMAIN annotations # {}
    /\ req[1].op = "create" /\ req[1].result = "PermissionDenied"
    /\ req[1].LTI.hx_user_id = "u1" /\ req[1].body.user.id = "u2"
    /\ req[1].body.contextId = req[1].LTI.hx_context_id

\* request r has passed the dispatcher's checks: its backend is, or was, invoked
ReachedBackend(r) == r.pc = "backend" \/ r.backend_called

\* C2: a create, update or delete reaches the backend only if the body's contextId is
\* the session's course and the body's user id is the session's user or the session is
\* staff; staff never pass with another course, a learner never with another or no user
C2_BackendOnlyIfAuthorized ==
    \A p \in AllProcs :
        (req[p].op \in Mutating /\ ReachedBackend(req[p])) =>
            /\ req[p].body.contextId = req[p].LTI.hx_context_id
            /\ \/ req[p].body.user.id = req[p].LTI.hx_user_id
               \/ req[p].LTI.is_staff

\* C2 witness: a staff request for another user's annotation has reached the backend
C2_Witness ==
    /\ req[1].op = "update" /\ req[1].backend_called
    /\ req[1].LTI.is_staff /\ req[1].body.user.id # req[1].LTI.hx_user_id

\* the ids of the rows a search response returns
ReturnedIds(response) == {response.content.rows[i].id : i \in DOMAIN response.content.rows}

\* C3: in the local backend, whatever was created, updated and deleted before, a search
\* of a non-staff session user returns no row that is private and of another user,
\* whatever filters and pagination the query carries; a staff search counts every row
\* the query's filters match
C3_SearchHidesOthersPrivate ==
    \A p \in AllProcs :
        ( /\ settings.backend = "app"
          /\ req[p].op = "search" /\ req[p].pc = "done" /\ req[p].result = "response" )
        => /\ ~req[p].LTI.is_staff =>
                \A k \in ReturnedIds(req[p].response) :
                    ~(annotations[k].is_private
                      /\ annotations[k].user_id # req[p].LTI.hx_user_id)
           /\ req[p].LTI.is_staff =>
                req[p].response.content.total =
                    Cardinality({k \in DOMAIN annotations :
                        /\ annotations[k].context_id = req[p].GET.contextId
                        /\ (req[p].GET.userid # ""
                               => annotations[k].user_id = req[p].GET.userid)})

\* C3 witness: learner u1 has searched for the rows of u2 while u2 holds a private and
\* a public row; the response returns the public row only
C3_Witness ==
    /\ settings.backend = "app"
    /\ req[1].op = "search" /\ req[1].pc = "done" /\ req[1].result = "response"
    /\ ~req[1].LTI.is_staff /\ req[1].LTI.hx_user_id = "u1"
    /\ req[1].GET.userid = "u2" /\ req[1].GET.limit = "absent"
    /\ req[1].GET.offset = "absent"
    /\ \E k, j \in DOMAIN annotations :
          /\ annotations[k].is_private /\ annotations[k].user_id = "u2"
          /\ ~annotations[j].is_private /\ annotations[j].user_id = "u2"
          /\ ReturnedIds(req[1].response) = {j}

\* the non-deleted rows whose parent_id is k
LiveChildren(k) ==
    {j \in DOMAIN annotations : annotations[j].parent_id = k /\ ~annotations[j].is_deleted}

\* C4: in every state the local backend reaches by creates, updates and deletes, each
\* annotation's total_comments is the number of non-deleted annotations whose parent_id
\* is its id
C4_TotalCommentsIsChildCount ==
    \A k \in DOMAIN annotations :
        annotations[k].total_comments = Cardinality(LiveChildren(k))

\* C5: while the processes create replies to row 1 concurrently, in every interleaving
\* of their steps the parent's total_comments is its value before, plus the number of
\* replies whose creation has returned: no increment is lost
C5_NoLostIncrement ==
    annotations[1].total_comments =
        ThreadParent.total_comments + Cardinality(LiveChildren(1))

\* C5 witness: two creators read the parent before either had incremented it, both
\* have returned from the backend, and the counter is two higher
C5_Witness ==
    /\ \A p \in 1 .. 2 :
          /\ req[p].op = "create" /\ req[p].pc = "after_create"
          /\ req[p].parent_anno.pk = 1
          /\ req[p].parent_anno.total_comments = ThreadParent.total_comments
    /\ annotations[1].total_comments = ThreadParent.total_comments + 2

\* C6, the step that ends the delete of a reply: the reply's row stays, flagged, its
\* parent's total_comments is one less than before, the response reports deleted, and
\* a read of the reply's id answers 200 with deleted true
C6_DeleteStep ==
    \A p \in AllProcs :
        ( /\ req[p].op = "delete"
          /\ req[p].pc = "del_parent_save" /\ req'[p].pc = "stats" )
        => LET id == req[p].anno.pk
               parent == req[p].anno.parent_id
           IN  /\ id \in DOMAIN annotations'
               /\ annotations'[id].is_deleted
               /\ annotations'[id].json = annotations[id].json
               /\ annotations'[parent].total_comments = annotations[parent].total_comments - 1
               /\ req'[p].response.status_code = 200
               /\ req'[p].response.content.deleted
               /\ read(annotations', id).status_code = 200
               /\ read(annotations', id).content.deleted

\* C6, every later step of requests handled one after the other: no row is removed,
\* and a flagged row stays flagged, so that a read of its id keeps reporting deleted
C6_StaysDeleted ==
    \A k \in DOMAIN annotations :
        /\ k \in DOMAIN annotations'
        /\ annotations[k].is_deleted =>
              /\ annotations'[k].is_deleted
              /\ read(annotations', k).status_code = 200
              /\ read(annotations', k).content.deleted

\* C6: in the local backend, deleting a reply whose parent has total_comments = k sets
\* the reply's is_deleted without removing the row, leaves the parent with k-1, and a
\* later read of the reply's id succeeds and reports deleted == true
C6_SoftDeleteOfReply == [][C6_DeleteStep /\ C6_StaysDeleted]_vars

\* C6 witness: the reply of another row was deleted, and the parent's counter went
\* from 1 to 0
C6_Witness ==
    /\ settings.backend = "app"
    /\ req[1].op = "delete" /\ req[1].pc = "stats"
    /\ req[1].anno.parent_id \notin {0, req[1].anno.pk}
    /\ req[1].parent_anno.pk = req[1].anno.parent_id
    /\ req[1].parent_anno.total_comments = 1
    /\ annotations[req[1].anno.parent_id].total_comments = 0
    /\ annotations[req[1].anno.pk].is_deleted

\* the step in which process p leaves the atomic block of create, update or delete
\* normally
CommitStep(p) ==
    /\ req[p].pc \in {"tags", "del_save", "del_parent_save"}
    /\ req'[p].pc \in {"after_create", "stats"}

\* the step in which an exception leaves the local backend of process p
AbortStep(p) ==
    /\ req[p].pc \in {"backend", "save", "parent_get", "del_parent_get"}
    /\ req'[p].pc = "done"
    /\ req'[p].result \in {"KeyError", "ValueError", "DoesNotExist"}

\* all the effects of p's request are in the committed table after the step, and the
\* rows the request does not name are as before
WholeEffect(p) ==
    LET r == req'[p]
        id == r.anno.pk
        parent == r.anno.parent_id
        body == _get_request_body(r.body)
        counted == (r.op = "create" \/ r.op = "delete") /\ parent # 0
    IN  /\ id \in DOMAIN annotations'
        /\ IF r.op = "delete"
           THEN /\ annotations'[id].is_deleted
                /\ id \in DOMAIN annotations
           ELSE /\ annotations'[id].json = body
                /\ annotations'[id].parent_id = parent
                /\ annotations'[id].tags = {strip[t] : t \in Range(body.tags)}
                /\ (r.op = "create") = (id \notin DOMAIN annotations)
        /\ counted =>
              annotations'[parent].total_comments =
                  annotations[parent].total_comments + (IF r.op = "create" THEN 1 ELSE -1)
        /\ \A k \in DOMAIN annotations :
              (k # id /\ ~(counted /\ k = parent)) =>
                  (k \in DOMAIN annotations' /\ annotations'[k] = annotations[k])
        /\ DOMAIN annotations' = DOMAIN annotations \cup {id}

\* C7, in every step of concurrent requests: the committed table, which is all that
\* another request reads, changes only when a request leaves its atomic block, and then
\* by all of the request's effects; a request that fails leaves the table as it was
\* and its uncommitted writes are gone, the row of a failed reply creation among them
C7_Step ==
    /\ annotations' # annotations => \E p \in AllProcs : CommitStep(p)
    /\ \A p \in AllProcs :
          /\ CommitStep(p) => (WholeEffect(p) /\ tx'[p] = NoTx)
          /\ AbortStep(p) =>
                /\ annotations' = annotations
                /\ tx'[p] = NoTx
                /\ req[p].op = "create" => req[p].anno.pk \notin DOMAIN annotations'
          /\ (req[p].op = "search" /\ req[p].pc = "backend" /\ req'[p].pc = "done") =>
                req'[p].response.content =
                    AppSearchResult(annotations, req[p].LTI, req[p].GET)

\* C7: the local create/update sequence (save, parent counter, tags) and the local
\* delete sequence (flag, parent counter) are each atomic: no concurrent request
\* observes some of the effects only, and when a step fails none of the effects
\* remains, so that a failed reply creation leaves no annotation row
C7_AtomicSequences == [][C7_Step]_vars

\* C7 witness: a reply creation has failed on its parent after its row was saved, the
\* row is not in the table, and meanwhile another request holds uncommitted writes
C7_Witness ==
    \E p, q \in AllProcs :
        /\ p # q
        /\ req[p].op = "create" /\ req[p].pc = "done" /\ req[p].result = "DoesNotExist"
        /\ req[p].anno.pk # 0
        /\ req[p].anno.pk \notin DOMAIN annotations
        /\ DOMAIN tx[q].rows # {}

\* C8, the step of the grade passback: whatever its outcome, the request goes on to
\* the stats update with the backend's response as it was, and no table changes
C8_PassbackStep ==
    \A p \in AllProcs :
        (req[p].pc = "after_create" /\ req'[p] # req[p]) =>
            /\ req'[p] = [req[p] EXCEPT !.pc = "stats", !.passback = req'[p].passback]
            /\ UNCHANGED <<annotations, next_pk, tagtable, userstats, tx>>

\* C8, in every state of the local store: a create whose passback failed has returned
\* the backend's response, the row it reports is stored, and the stats update ran
C8_CreateStands ==
    \A p \in AllProcs :
        ( /\ settings.backend = "app"
          /\ req[p].op = "create" /\ req[p].pc = "done"
          /\ req[p].passback \in {"failure", "exception"} )
        => /\ req[p].result = "response"
           /\ req[p].response = HttpResponse(_serialize_annotation(req[p].anno), 200)
           /\ req[p].anno.pk \in DOMAIN annotations
           /\ annotations[req[p].anno.pk].json = req[p].anno.json
           /\ req[p].stats_ran = settings.gather_statistics

\* C8: a grade-passback failure (an exception of the outcome client, or an outcome that
\* is no success) never fails or rolls back the create: the annotation stays written,
\* the stats update still runs, and the caller receives the backend's response
C8_PassbackFailureIsSwallowed == []C8_CreateStands /\ [][C8_PassbackStep]_vars

\* C8 witness: the outcome client raised, and the create has returned the backend's
\* response after the stats update
C8_Witness ==
    /\ req[1].op = "create" /\ req[1].pc = "done" /\ req[1].passback = "exception"
    /\ req[1].result = "response" /\ req[1].stats_ran
    /\ req[1].anno.pk \in DOMAIN annotations

\* the keys that the history or a UserStats row names
StatsKeys == DOMAIN history \cup {KeyOf([contextId |-> userstats[i].context_id,
                                        collectionId |-> userstats[i].collection_id,
                                        uri |-> userstats[i].uri,
                                        user |-> [id |-> userstats[i].user_id,
                                                  name |-> userstats[i].user_name]]) :
                                      i \in DOMAIN userstats}

RECURSIVE CounterSum(_, _)
\* the counters of the first n UserStats rows of key, added up
CounterSum(key, n) ==
    IF n = 0 THEN [total_comments |-> 0, total_annotations |-> 0]
    ELSE LET rest == CounterSum(key, n - 1)
             row == userstats[n]
         IN  IF HasAttrs(row, key)
             THEN [total_comments |-> rest.total_comments + row.total_comments,
                   total_annotations |-> rest.total_annotations + row.total_annotations]
             ELSE rest

\* no request is between its backend's response and the end of its stats update
NoStatsPending ==
    \A p \in AllProcs : req[p].pc \notin {"after_create", "stats", "stats_save"}

\* C9, in every state with no stats update pending: with gathering enabled the
\* counters of each key are the creates less the deletes answered for it, comments in
\* total_comments and every other media in total_annotations; with gathering disabled
\* there is no UserStats row
C9_CountersFollowHistory ==
    NoStatsPending =>
        IF settings.gather_statistics
        THEN \A key \in StatsKeys :
                 CounterSum(key, Len(userstats)) =
                     IF key \in DOMAIN history THEN history[key]
                     ELSE [total_comments |-> 0, total_annotations |-> 0]
        ELSE userstats = <<>>

\* C9, in every step of an update request: no counter of a UserStats row changes, and
\* a row the step creates has both counters at zero
C9_UpdateKeepsCounters ==
    \A p \in AllProcs :
        (req[p].op = "update" /\ req'[p] # req[p]) =>
            \A i \in DOMAIN userstats' :
                IF i \in DOMAIN userstats THEN userstats'[i] = userstats[i]
                ELSE userstats'[i].total_comments = 0 /\ userstats'[i].total_annotations = 0

\* C9: with gathering enabled, after any sequence of create, update and delete
\* requests the UserStats total_comments of a key is the creates less the deletes whose
\* response had media "comment", total_annotations the same for all other media;
\* updates change neither, and with gathering disabled no row is created or changed
C9_UserStatsCounters == []C9_CountersFollowHistory /\ [][C9_UpdateKeepsCounters]_vars

\* C9 witness: a comment was created and deleted again, and the key's row is back at
\* total_comments 0 after having been created
C9_Witness ==
    /\ settings.gather_statistics
    /\ req[1].op = "delete" /\ req[1].pc = "done" /\ req[1].stats_ran
    /\ req[1].response.content.json.media = "comment"
    /\ Len(userstats) = 1
    /\ userstats[1].total_comments = 0
    /\ history[KeyOf(req[1].response.content.json)].total_comments = 0

\* the stats update of request r has started on the response of its backend
StatsEntered(r) ==
    /\ settings.gather_statistics
    /\ \/ r.pc = "stats_save"
       \/ r.stats_ran
       \/ (r.pc = "done" /\ r.response # NoResponse /\ r.result \in {"KeyError", "ValueError"})

\* C10: for every create, update or delete the stats update runs only after a
\* successful backend write, and the caller sees no error once the backend has answered
\* a write with success: the outcome is never partial
C10_NoPartialOutcome ==
    \A p \in AllProcs :
        req[p].op \in Mutating =>
            /\ StatsEntered(req[p]) => req[p].response.status_code = 200
            /\ (req[p].pc = "done" /\ req[p].result # "response") =>
                  req[p].response.status_code # 200

\* C11: with the remote proxy backend, a search, create, update or delete whose
\* outbound call timed out returns the synthetic response, status 500 and body
\* {"error": "request timeout"}, and no exception, whatever the configuration
C11_TimeoutIsAResponse ==
    \A p \in AllProcs :
        ( /\ settings.backend = "catch"
          /\ req[p].pc = "done" /\ req[p].remote = Timeout )
        => /\ req[p].result = "response"
           /\ req[p].response = _response_timeout

\* C12: with the remote proxy backend, when the remote service answers a search,
\* create, update or delete, the response the backend returns carries the remote
\* service's status code and its body, whatever the status code
C12_RemoteAnswerVerbatim ==
    \A p \in AllProcs :
        ( /\ settings.backend = "catch"
          /\ req[p].backend_called /\ req[p].remote # Timeout )
        => /\ req[p].response.status_code = req[p].remote.status_code
           /\ req[p].response.content = req[p].remote.content

\* C13: the rewriter is idempotent: applied to what it returned, for any payload, it
\* returns the same permissions.read list
C13_RewriterIdempotent ==
    [][\A p \in AllProcs :
          (req[p].pc = "rewritten" /\ req'[p].pc = "rewritten_again") =>
              req'[p].data.permissions.read = req[p].data.permissions.read]_vars

\* C13 witness: a top-level payload whose list lacked the author and the admin group,
\* and held a duplicate, was rewritten twice
C13_Witness ==
    /\ req[1].pc = "rewritten_again"
    /\ req[1].body.parent = "absent"
    /\ req[1].body.user.id = "u1"
    /\ req[1].body.permissions.read = <<"u2", "u2">>
    /\ req[1].data.permissions.read = <<"u1", "u2", "u2", ADMIN_GROUP_ID>>

\* the number of times x is in the list s
Count(x, s) == Cardinality({i \in DOMAIN s : s[i] = x})

\* C14: for every top-level payload (parent absent, "" or "0") with a non-empty read
\* list, the rewritten list holds the author, as its first element when the author was
\* missing, and the admin group; every id is in it as often as before, the author and
\* the admin group once when they were missing
C14_TopLevelReadList ==
    \A p \in AllProcs :
        ( /\ req[p].pc = "rewritten"
          /\ req[p].body.parent \in {"absent", "", "0"}
          /\ Len(req[p].body.permissions.read) > 0 )
        => LET before == req[p].body.permissions.read
               after == req[p].data.permissions.read
               author == req[p].body.user.id
           IN  /\ author \in Range(after)
               /\ author \notin Range(before) => after[1] = author
               /\ ADMIN_GROUP_ID \in Range(after)
               /\ \A x \in ReaderIds :
                     Count(x, after) =
                         IF x \in {author, ADMIN_GROUP_ID} /\ x \notin Range(before)
                         THEN 1 ELSE Count(x, before)

\* C14 witness: a top-level payload, its parent "0", whose list held the admin group
\* and not the author, was rewritten
C14_Witness ==
    /\ req[1].pc = "rewritten"
    /\ req[1].body.parent = "0"
    /\ req[1].body.user.id = "u2"
    /\ req[1].body.permissions.read = <<ADMIN_GROUP_ID, "u1">>
    /\ req[1].data.permissions.read = <<"u2", ADMIN_GROUP_ID, "u1">>

\* C15: with admin visibility enabled, the body a backend works on has an empty read
\* list when the request's payload is a reply with a non-empty read list, and is the
\* payload itself when the payload's read list is empty; every row the local backend
\* stores has is_private = 'the read list of the stored body is non-empty', so that a
\* reply is stored with is_private false
C15_ReplyStoredPublic ==
    /\ \A p \in AllProcs :
          (settings.ADMIN_GROUP_ENABLED /\ req[p].op \in {"create", "update"}) =>
              /\ (has_parent(req[p].body) /\ Len(req[p].body.permissions.read) > 0) =>
                    _get_request_body(req[p].body).permissions.read = <<>>
              /\ Len(req[p].body.permissions.read) = 0 =>
                    _get_request_body(req[p].body) = req[p].body
    /\ \A p \in AllProcs : \A k \in DOMAIN tx[p].rows :
          /\ tx[p].rows[k].is_private = (Len(tx[p].rows[k].json.permissions.read) # 0)
          /\ (settings.ADMIN_GROUP_ENABLED /\ has_parent(tx[p].rows[k].json)) =>
                ~tx[p].rows[k].is_private
    /\ \A k \in DOMAIN annotations :
          /\ annotations[k].is_private = (Len(annotations[k].json.permissions.read) # 0)
          /\ (settings.ADMIN_GROUP_ENABLED /\ has_parent(annotations[k].json)) =>
                ~annotations[k].is_private

\* C15 witness: with admin visibility enabled the local backend has stored a reply
\* whose payload had a non-empty read list, and the row is not private
C15_Witness ==
    /\ settings.ADMIN_GROUP_ENABLED /\ settings.backend = "app"
    /\ req[1].op = "create" /\ req[1].pc = "after_create"
    /\ has_parent(req[1].body)
    /\ Len(req[1].body.permissions.read) > 0
    /\ ~annotations[req[1].anno.pk].is_private
    /\ annotations[req[1].anno.pk].json.permissions.read = <<>>

\* the smaller of two numbers
Min(a, b) == IF a <= b THEN a ELSE b

\* C16: for every local search with T matching rows, requested limit L and offset O:
\* the reported limit is min(L, 1000) when L is digits only and 1000 otherwise, the
\* reported offset is min(O, T) when O is digits only and 0 otherwise, total is T
\* whatever the pagination, and size is the number of rows returned, min(limit,
\* T - offset), so that an offset of T or more returns no row
C16_Pagination ==
    \A p \in AllProcs :
        ( /\ settings.backend = "app"
          /\ req[p].op = "search" /\ req[p].pc = "done" /\ req[p].result = "response" )
        => LET GET == req[p].GET
               c == req[p].response.content
               T == Cardinality({k \in DOMAIN annotations :
                                    SearchMatches(annotations, req[p].LTI, GET, k)})
           IN  /\ c.limit = IF GET.limit \in DOMAIN PyInt
                            THEN Min(PyInt[GET.limit], 1000) ELSE 1000
               /\ c.offset = IF GET.offset \in DOMAIN PyInt
                             THEN Min(PyInt[GET.offset], T) ELSE 0
               /\ c.total = T
               /\ c.size = Len(c.rows)
               /\ c.size = Min(c.limit, T - c.offset)
               /\ c.offset >= T => c.rows = <<>>

\* C16 witness: a search of three matching rows with limit "5000" and offset "5"
\* reports limit 1000, offset 3, total 3 and no row
C16_Witness ==
    /\ req[1].op = "search" /\ req[1].pc = "done" /\ req[1].result = "response"
    /\ req[1].GET.limit = "5000" /\ req[1].GET.offset = "5"
    /\ req[1].response.content.limit = 1000
    /\ req[1].response.content.total = 3
    /\ req[1].response.content.offset = 3
    /\ req[1].response.content.size = 0

\* C17: with the local backend, an authorized update or delete that names an id that
\* does not exist ends with Not-Found (404), as read does
C17_MissingIdIsNotFound ==
    \A p \in AllProcs :
        ( /\ settings.backend = "app"
          /\ req[p].op \in {"update", "delete"}
          /\ req[p].pc = "done" /\ req[p].backend_called
          /\ req[p].annotation_id \notin DOMAIN annotations )
        => /\ read(annotations, req[p].annotation_id) = Http404
           /\ req[p].result = "Http404"

\* the backend of request r has returned a response to the dispatcher's hook
BackendReturned(r) ==
    \/ r.pc \in {"stats", "stats_save"}
    \/ (r.pc = "done" /\ r.op \in Mutating /\ r.response # NoResponse)

\* C18, in every state: a passback was attempted only for a create of a graded launch
\* whose backend answered 200, and for each such create once its hook is past it
C18_PassbackOnlyOnGradedCreate ==
    \A p \in AllProcs :
        /\ req[p].passback # "none" =>
              /\ req[p].op = "create"
              /\ req[p].LTI.is_graded
              /\ req[p].backend_called
              /\ req[p].response.status_code = 200
        /\ ( /\ BackendReturned(req[p])
             /\ req[p].op = "create" /\ req[p].LTI.is_graded
             /\ req[p].response.status_code = 200 )
           => req[p].passback # "none"

\* C18, in every step: the passback is attempted after the backend has returned (the
\* local row is committed) and before the stats update has touched UserStats
C18_PassbackStep ==
    \A p \in AllProcs :
        (req'[p].passback # req[p].passback /\ req'[p].passback # "none") =>
            /\ req[p].pc = "after_create" /\ req'[p].pc = "stats"
            /\ req[p].backend_called /\ ~req[p].stats_ran
            /\ settings.backend = "app" => req[p].anno.pk \in DOMAIN annotations
            /\ UNCHANGED <<userstats, annotations, tx>>

\* C18: grade passback is attempted exactly when the operation is create, the session
\* is a graded launch and the backend's response status is 200: never on search,
\* update or delete, never ungraded, never on another status; and when attempted,
\* after the backend write and before the stats update
C18_PassbackTiming == []C18_PassbackOnlyOnGradedCreate /\ [][C18_PassbackStep]_vars

\* C18 witness: a graded create of the proxy backend was answered 404, no passback was
\* attempted and the stats update has run
C18_Witness ==
    /\ settings.backend = "catch"
    /\ req[1].op = "create" /\ req[1].LTI.is_graded
    /\ req[1].response.status_code = 404
    /\ req[1].pc = "done" /\ req[1].stats_ran
    /\ req[1].passback = "none"

\* C19: with the remote proxy backend, a request goes out with the token minted for
\* the admin group if and only if it is a search, admin visibility is enabled and the
\* session user is staff; every other request goes out with the inbound token
C19_AdminTokenOnlyForStaffSearch ==
    \A p \in AllProcs :
        (settings.backend = "catch" /\ req[p].sent # NoCall) =>
            /\ (req[p].sent.token = AdminToken) =
                  ( /\ req[p].op = "search"
                    /\ settings.ADMIN_GROUP_ENABLED
                    /\ req[p].LTI.is_staff )
            /\ req[p].sent.token # AdminToken => req[p].sent.token = InboundToken

\* C19 witness: with admin visibility enabled, a search of the staff user went out with
\* the admin token
C19_Witness ==
    /\ settings.backend = "catch" /\ settings.ADMIN_GROUP_ENABLED
    /\ req[1].op = "search" /\ req[1].LTI.is_staff
    /\ req[1].pc = "done"
    /\ req[1].sent.token = AdminToken

\* C20 as claimed: the remote proxy backend forwards the body of a create or update
\* with permissions.read exactly as received
C20_ProxyForwardsAsReceived ==
    \A p \in AllProcs :
        ( /\ settings.backend = "catch"
          /\ req[p].op \in {"create", "update"} /\ req[p].sent # NoCall )
        => req[p].sent.data.permissions.read = req[p].body.permissions.read

\* data is body as a backend works on it: as received when admin visibility is
\* disabled or the read list is empty, otherwise with the read list emptied for a
\* reply, and holding the author and the admin group for a top-level payload
AsBackendTakes(body, data) ==
    IF ~settings.ADMIN_GROUP_ENABLED \/ Len(body.permissions.read) = 0
    THEN data = body
    ELSE /\ [data EXCEPT !.permissions = body.permissions] = body
         /\ IF body.parent \notin {"absent", "", "0"}
            THEN data.permissions.read = <<>>
            ELSE /\ body.user.id \in Range(data.permissions.read)
                 /\ ADMIN_GROUP_ID \in Range(data.permissions.read)
                 /\ Range(body.permissions.read) \subseteq Range(data.permissions.read)

\* C20, amended: the rewriter is applied by both backends, and only when admin
\* visibility is enabled: the remote proxy backend forwards the body of a create or
\* update with permissions.read rewritten when admin visibility is enabled and exactly
\* as received when it is disabled, and the local backend stores the same body
C20_RewriterInBothBackends ==
    \A p \in AllProcs :
        req[p].op \in {"create", "update"} =>
            /\ (settings.backend = "catch" /\ req[p].sent # NoCall) =>
                  AsBackendTakes(req[p].body, req[p].sent.data)
            /\ ( /\ settings.backend = "app"
                 /\ req[p].pc \in {"parent_get", "parent_save", "tags",
                                   "after_create", "stats", "stats_save"} )
               => AsBackendTakes(req[p].body, req[p].anno.json)

\* C20 witness: with admin visibility enabled the proxy backend has forwarded a private
\* top-level payload, the admin group added to its read list
C20_Witness ==
    /\ settings.backend = "catch" /\ settings.ADMIN_GROUP_ENABLED
    /\ req[1].op = "create" /\ req[1].sent # NoCall
    /\ req[1].body.permissions.read = <<"u2">>
    /\ req[1].sent.data.permissions.read = <<"u2", ADMIN_GROUP_ID>>

\* C21: at most one UserStats row exists for each key (context_id, collection_id, uri,
\* user_id, user_name), under every interleaving of concurrent requests whose responses
\* carry that key, several of them being the first qualifying action for the key
C21_OneRowPerKey ==
    \A i, j \in DOMAIN userstats :
        HasAttrs(userstats[i], userstats[j]) => i = j

\* C22: when create and delete requests for one existing UserStats row run their stats
\* updates concurrently, then under every interleaving, once no stats update is
\* pending, the row's counters have changed by the creates less the deletes answered
\* for its key: no adjustment is lost
C22_NoLostAdjustment ==
    (settings.gather_statistics /\ NoStatsPending) =>
        \A i \in DOMAIN userstats :
            LET key == KeyOf([contextId |-> userstats[i].context_id,
                              collectionId |-> userstats[i].collection_id,
                              uri |-> userstats[i].uri,
                              user |-> [id |-> userstats[i].user_id,
                                        name |-> userstats[i].user_name]])
                tally == IF key \in DOMAIN history THEN history[key]
                         ELSE [total_comments |-> 0, total_annotations |-> 0]
            IN  /\ userstats[i].total_comments = tally.total_comments
                /\ userstats[i].total_annotations = tally.total_annotations

\* C23, in every step that commits the update or the delete of process p in the local
\* backend: the stored annotation it overwrites or soft-deletes has the user_id of the
\* session's user unless the session is of the staff, and the context_id of the
\* session's course
C23_Step ==
    \A p \in AllProcs :
        ( /\ settings.backend = "app"
          /\ req[p].op \in {"update", "delete"}
          /\ CommitStep(p)
          /\ req[p].annotation_id \in DOMAIN annotations
          /\ annotations'[req[p].annotation_id] # annotations[req[p].annotation_id] )
        => LET stored == annotations[req[p].annotation_id]
               LTI == req[p].LTI
           IN  /\ LTI.is_staff \/ stored.user_id = LTI.hx_user_id
               /\ stored.context_id = LTI.hx_context_id

\* C23: with the local backend no update or delete of a non-staff session overwrites or
\* soft-deletes a stored annotation whose stored user_id is not the session's user id,
\* and none of any session one whose stored context_id is not the session's course id,
\* whatever course and user the request body names
C23_StoredFieldsAuthorize == [][C23_Step]_vars

\* C24: no denormalized counter is ever negative: in every reachable state every stored
\* annotation has total_comments >= 0 and every UserStats row has total_comments >= 0
\* and total_annotations >= 0, also after the same annotation id was deleted twice
C24_CountersNonNegative ==
    /\ \A k \in DOMAIN annotations : annotations[k].total_comments >= 0
    /\ \A i \in DOMAIN userstats :
          userstats[i].total_comments >= 0 /\ userstats[i].total_annotations >= 0

=============================================================================
